---- MODULE Spec2Model ----
(***************************************************************************)
(* termit: titplay.py (PTYRunner, scripted replay through a pty) and       *)
(* titrec.py (SessionRecorder, recording of an interactive session).       *)
(*                                                                         *)
(* Text (script lines, typed keys, transcript lines) is a sequence of      *)
(* one-character strings.  The control characters that have no TLA+        *)
(* escape are written by name: "ESC" is 0x1B, "^T" is 0x14, "^D" is 0x04,  *)
(* "GRAVE" is the grave accent 0x60, "0xFF" is a byte that is not valid    *)
(* UTF-8, "EOF" is the end of the keyboard input.                          *)
(* Bytes read from the pty master are run-length coded: a sequence of      *)
(* records [c |-> character, n |-> repetitions], so that a chunk of up to  *)
(* 1024 bytes and a buffer of up to 2023 bytes stay small values.          *)
(***************************************************************************)
EXTENDS Integers, Sequences, FiniteSets, TLC

(***************************************************************************)
(* Bounds of the model.                                                    *)
(***************************************************************************)
MaxChunks == 3
MaxUserLines == 2
MaxRecChunks == 3
MaxSigints == 1

(***************************************************************************)
(* Program constants.                                                      *)
(***************************************************************************)
Timeout == 30
SelectCap == 10
ReadSize == 1024
BufferLimit == 1000
BufferKeep == 500

Min(a, b) == IF a <= b THEN a ELSE b

(***************************************************************************)
(* Python str operations, on sequences of characters.                      *)
(***************************************************************************)
\* str.strip() with no argument removes these (those of the model's alphabet)
Whitespace == {" ", "\t", "\n", "\r", "\f"}

RECURSIVE LStrip(_)
LStrip(s) ==
  IF s # <<>> /\ Head(s) \in Whitespace THEN LStrip(Tail(s)) ELSE s

RECURSIVE RStrip(_)
RStrip(s) ==
  IF s # <<>> /\ s[Len(s)] \in Whitespace
    THEN RStrip(SubSeq(s, 1, Len(s) - 1))
    ELSE s

Strip(s) == RStrip(LStrip(s))

StartsWith(s, p) == Len(s) >= Len(p) /\ SubSeq(s, 1, Len(p)) = p

\* the index of the first c in s, 0 when there is none
RECURSIVE FindChar(_, _, _)
FindChar(s, c, from) ==
  IF from > Len(s) THEN 0
  ELSE IF s[from] = c THEN from
  ELSE FindChar(s, c, from + 1)

\* s.split(' ', 1): one part when s holds no space, else the text before
\* the first space and everything after it
SplitOnce(s) ==
  LET k == FindChar(s, " ", 1)
  IN  IF k = 0 THEN <<s>>
      ELSE <<SubSeq(s, 1, k - 1), SubSeq(s, k + 1, Len(s))>>

UpperToLower ==
  [A |-> "a", B |-> "b", C |-> "c", D |-> "d", E |-> "e", F |-> "f",
   G |-> "g", H |-> "h", I |-> "i", J |-> "j", K |-> "k", L |-> "l",
   M |-> "m", N |-> "n", O |-> "o", P |-> "p", Q |-> "q", R |-> "r",
   S |-> "s", T |-> "t", U |-> "u", V |-> "v", W |-> "w", X |-> "x",
   Y |-> "y", Z |-> "z"]

Lower(s) ==
  [k \in 1..Len(s) |->
     IF s[k] \in DOMAIN UpperToLower THEN UpperToLower[s[k]] ELSE s[k]]

Digits == {"0", "1", "2", "3", "4", "5", "6", "7", "8", "9"}

\* float(arg) succeeds: surrounding whitespace is allowed, then an optional
\* sign and decimal digits with at most one point and at least one digit.
\* (Exponents, "inf" and "nan" are outside the arguments the model feeds.)
IsFloat(arg) ==
  LET t == Strip(arg)
      u == IF t # <<>> /\ Head(t) \in {"+", "-"} THEN Tail(t) ELSE t
  IN  /\ u # <<>>
      /\ \A k \in 1..Len(u) : u[k] \in Digits \cup {"."}
      /\ Cardinality({k \in 1..Len(u) : u[k] = "."}) <= 1
      /\ \E k \in 1..Len(u) : u[k] \in Digits

\* the float is negative: time.sleep raises ValueError on it
IsNegative(arg) ==
  LET t == Strip(arg)
  IN  /\ t # <<>> /\ Head(t) = "-"
      /\ \E k \in 1..Len(t) : t[k] \in Digits \ {"0"}

(***************************************************************************)
(* Text files.  open(name, 'r') reads with universal newlines: "\n", "\r"  *)
(* and "\r\n" each end a line and are handed over as "\n".                 *)
(***************************************************************************)
\* where the lines of a text end: at each "\n", and at each "\r" that is
\* not followed by "\n"
Terminators(text) ==
  { i \in 1..Len(text) :
      \/ text[i] = "\n"
      \/ text[i] = "\r" /\ ~(i < Len(text) /\ text[i + 1] = "\n") }

\* the line of text that ends at the terminator e and starts at from,
\* with its line ending handed over as "\n"
TerminatedLine(text, from, e) ==
  LET two == text[e] = "\n" /\ e > from /\ text[e - 1] = "\r"
  IN  Append(SubSeq(text, from, IF two THEN e - 2 ELSE e - 1), "\n")

\* the lines iterating over the open file yields
FileLines(text) ==
  LET ends == Terminators(text)
      n == Cardinality(ends)
      End(k) == IF k = 0 THEN 0
                ELSE CHOOSE e \in ends : Cardinality({x \in ends : x < e}) = k - 1
      full == [k \in 1..n |-> TerminatedLine(text, End(k - 1) + 1, End(k))]
  IN  IF End(n) < Len(text)
        THEN Append(full, SubSeq(text, End(n) + 1, Len(text)))
        ELSE full

\* the filter of the list comprehension that loads the script
KeepLine(line) == Strip(line) # <<>> /\ ~StartsWith(line, <<"#">>)

\* [line.strip() for line in lines if line.strip() and not line.startswith('#')]
RECURSIVE SelectLines(_)
SelectLines(lines) ==
  IF lines = <<>> THEN <<>>
  ELSE (IF KeepLine(Head(lines)) THEN <<Strip(Head(lines))>> ELSE <<>>)
         \o SelectLines(Tail(lines))

\* with open(filename, 'r') as f: commands = [... for line in f ...]
LoadCommands(text) == SelectLines(FileLines(text))

\* each line written as f.write(f"{line}\n")
RECURSIVE WriteLines(_)
WriteLines(lines) ==
  IF lines = <<>> THEN <<>>
  ELSE Head(lines) \o <<"\n">> \o WriteLines(Tail(lines))

(***************************************************************************)
(* Bytes read from the pty master (run-length coded).                      *)
(***************************************************************************)
B(c) == [c |-> c, n |-> 1]
Run(c, n) == [c |-> c, n |-> n]

\* the run-length coding of a text
Bytes(s) == [k \in 1..Len(s) |-> B(s[k])]

\* len(data)
RECURSIVE ByteLen(_)
ByteLen(data) ==
  IF data = <<>> THEN 0 ELSE Head(data).n + ByteLen(Tail(data))

\* the text of a byte string, every repetition written out
RECURSIVE Expand(_)
Expand(data) ==
  IF data = <<>> THEN <<>>
  ELSE [k \in 1..Head(data).n |-> Head(data).c] \o Expand(Tail(data))

\* data[-k:] for k > 0
RECURSIVE LastBytes(_, _)
LastBytes(data, k) ==
  IF k <= 0 \/ data = <<>> THEN <<>>
  ELSE LET t == data[Len(data)]
           front == SubSeq(data, 1, Len(data) - 1)
       IN  IF t.n >= k THEN <<Run(t.c, k)>>
           ELSE Append(LastBytes(front, k - t.n), t)

\* bytes that are not valid UTF-8: decode(errors='ignore') drops them
InvalidUtf8 == {"0xFF"}

\* data.decode('utf-8', errors='ignore')
Decode(data) == SelectSeq(data, LAMBDA t : t.c \notin InvalidUtf8)

(***************************************************************************)
(* The escape-sequence pattern \x1B(?:[@-Z\\-_]|\[[0-?]*[ -/]*[@-~]).      *)
(***************************************************************************)
TwoByteFinal ==
  {"@", "A", "B", "C", "D", "E", "F", "G", "H", "I", "J", "K", "L", "M",
   "N", "O", "P", "Q", "R", "S", "T", "U", "V", "W", "X", "Y", "Z", "\\",
   "]", "^", "_"}
CsiParam ==
  {"0", "1", "2", "3", "4", "5", "6", "7", "8", "9", ":", ";", "<", "=",
   ">", "?"}
CsiIntermediate ==
  {" ", "!", "\"", "#", "$", "%", "&", "'", "(", ")", "*", "+", ",", "-",
   ".", "/"}
CsiFinal ==
  {"@", "A", "B", "C", "D", "E", "F", "G", "H", "I", "J", "K", "L", "M",
   "N", "O", "P", "Q", "R", "S", "T", "U", "V", "W", "X", "Y", "Z", "[",
   "\\", "]", "^", "_", "GRAVE", "a", "b", "c", "d", "e", "f", "g", "h", "i",
   "j", "k", "l", "m", "n", "o", "p", "q", "r", "s", "t", "u", "v", "w",
   "x", "y", "z", "{", "|", "}", "~"}

\* text without its first character
DropOne(text) ==
  IF Head(text).n > 1
    THEN <<Run(Head(text).c, Head(text).n - 1)>> \o Tail(text)
    ELSE Tail(text)

\* text without its longest prefix of characters of class
RECURSIVE SkipClass(_, _)
SkipClass(text, class) ==
  IF text # <<>> /\ Head(text).c \in class
    THEN SkipClass(Tail(text), class)
    ELSE text

\* what follows the escape sequence that starts at an ESC, given the text
\* after that ESC; <<FALSE, ...>> when no sequence starts there.  The
\* classes [0-?], [ -/] and [@-~] are disjoint, so the greedy match of the
\* two starred classes is the only one.
AfterEscape(rest) ==
  IF rest = <<>> THEN <<FALSE, rest>>
  ELSE IF Head(rest).c \in TwoByteFinal THEN <<TRUE, DropOne(rest)>>
  ELSE IF Head(rest).c = "["
    THEN LET body == SkipClass(SkipClass(DropOne(rest), CsiParam),
                               CsiIntermediate)
         IN  IF body # <<>> /\ Head(body).c \in CsiFinal
               THEN <<TRUE, DropOne(body)>>
               ELSE <<FALSE, rest>>
  ELSE <<FALSE, rest>>

\* ansi_escape.sub('', text)
RECURSIVE StripAnsi(_)
StripAnsi(text) ==
  IF text = <<>> THEN <<>>
  ELSE IF Head(text).c # "ESC" THEN <<Head(text)>> \o StripAnsi(Tail(text))
  ELSE LET m == AfterEscape(DropOne(text))
       IN  IF m[1] THEN StripAnsi(m[2])
           ELSE <<B("ESC")>> \o StripAnsi(DropOne(text))

(***************************************************************************)
(* Prompt patterns.  A pattern is the set of the texts its regular         *)
(* expression denotes; a prompt spec is a sequence of patterns.            *)
(***************************************************************************)
\* the last k characters of the text that ends with its token i
RECURSIVE TextBefore(_, _, _)
TextBefore(text, i, k) ==
  IF k <= 0 \/ i = 0 THEN <<>>
  ELSE LET m == Min(text[i].n, k)
       IN  TextBefore(text, i - 1, k - m) \o [j \in 1..m |-> text[i].c]

\* where '$' matches under re.MULTILINE, as the token the position follows:
\* the end of the text and the position before each newline
LineEnds(text) ==
  {i \in 1..Len(text) : i = Len(text) \/ text[i + 1].c = "\n"}

\* re.search(pattern + r'$', clean_text, re.MULTILINE)
SearchAtLineEnd(pattern, text) ==
  \E lit \in pattern : \E i \in LineEnds(text) :
     TextBefore(text, i, Len(lit)) = lit

\* PTYRunner._check_prompt
CheckPrompt(prompts, text) ==
  LET clean_text == StripAnsi(text)
  IN  \E k \in 1..Len(prompts) : SearchAtLineEnd(prompts[k], clean_text)

\* PTYRunner.prompt_patterns, and the default current_prompt
DefaultPrompt == << {<<"$", " ">>} >>
PromptPatterns ==
  [sh     |-> << {<<"$", " ">>}, {<<"#", " ">>}, {<<">", " ">>} >>,
   mysql  |-> << {<<"m", "y", "s", "q", "l", ">", " ">>}, {<<"-", ">", " ">>},
                 {<<"\"", "'", ">", " ">>} >>,
   psql   |-> << {<<"#", " ">>, <<"=", " ">>, <<">", " ">>},
                 {<<"-", "?", " ">>} >>,
   python |-> << {<<">", ">", ">", " ">>}, {<<".", ".", ".", " ">>} >>]

\* a prompt directive that installs no pattern at all
Mut_CustomPrompt(arg) == <<>>

\* the pattern a prompt directive's argument denotes; the arguments the
\* model feeds hold no regular-expression operator, so each denotes itself
CustomPrompt(arg) == << {arg} >>

(***************************************************************************)
(* State.                                                                  *)
(***************************************************************************)
VARIABLES
  \* titplay.py -- what the run is given
  script_file,        \* the command file: [exists, text]
  silence_threshold,  \* --silence-threshold, in seconds
  child_output,       \* the chunks the child may write to the pty
  \* titplay.py -- PTYRunner.process_command_file
  commands,           \* the loaded script lines
  pc,                 \* where process_command_file is
  idx,                \* the 1-based position of the for loop in commands
  current_prompt,     \* self.current_prompt
  master,             \* the pty master: "none", "open", "closed"
  child,              \* the forked shell: "none", "running", "exited", "reaped"
  raised,             \* the exception that left process_command_file
  \* titplay.py -- the locals of PTYRunner.wait_for_prompt
  buffer,
  data,               \* the chunk read last
  text,               \* the decoded buffer that was checked last
  now,                \* time.time(), counted from the start of the wait
  end_time,
  last_output_time,
  prompt_found,
  \* history
  events,             \* what the driver did, in order
  chunks_read,        \* chunks read from the master so far
  wait_eof,           \* a read in wait_for_prompt met the closed slave
  lines_typed,        \* lines read from stdin in interactive mode so far
  \* titrec.py -- what the session is given
  rec_silence_threshold,  \* self.silence_threshold, in seconds
  output_writable,    \* how open(self.output_file, 'w') can end: TRUE, it
                      \* succeeds; FALSE, it raises OSError
  keyboard,           \* the keys the user has still to type
  shell_output,       \* the chunks the recorded shell may write to the pty
  \* titrec.py -- SessionRecorder.record_session
  rec_pc,             \* where record_session is
  recorded_commands,
  since_output,       \* time.time() - last_output_time, as of the last pass
  rec_current_prompt, \* the local current_prompt
  last_recorded_prompt,
  command_so_far,
  recording,
  output_is_silent,
  user_char_just_read,
  rec_master,         \* the pty master: "none", "open", "closed"
  rec_child,          \* the forked bash: "none", "running", "exited", "reaped"
  child_signalled,    \* os.kill(self.child_pid, signal.SIGTERM) was done
  sigints_forwarded,  \* how often forward_sigint sent SIGINT to the child
  stdin_settings,     \* the termios mode of stdin: "cooked", "raw"
  sigint,             \* the SIGINT disposition: "default", "forward"
  rec_raised,         \* the exception that left record_session
  output_file,        \* the file at self.output_file: [exists, text]
  \* history
  to_child,           \* the keys written to the master, in order
  rec_chunks,         \* chunks read from the master so far
  rec_report          \* what the recorder printed about the session

replay_vars ==
  <<script_file, silence_threshold, child_output, commands, pc, idx,
    current_prompt, master, child, raised, buffer, data, text, now, end_time,
    last_output_time, prompt_found, events, chunks_read, wait_eof,
    lines_typed>>

rec_vars ==
  <<rec_silence_threshold, output_writable, keyboard, shell_output, rec_pc,
    recorded_commands, since_output, rec_current_prompt,
    last_recorded_prompt, command_so_far, recording, output_is_silent,
    user_char_just_read, rec_master, rec_child, child_signalled,
    sigints_forwarded, stdin_settings, sigint, rec_raised, output_file, to_child, rec_chunks,
    rec_report>>

vars == <<replay_vars, rec_vars>>

(***************************************************************************)
(* titplay.py: directives.                                                 *)
(***************************************************************************)
MetaMarker == <<"#", ">">>
CmdPrompt == <<"p", "r", "o", "m", "p", "t">>
CmdSh == <<"s", "h">>
CmdMysql == <<"m", "y", "s", "q", "l">>
CmdPython == <<"p", "y", "t", "h", "o", "n">>
CmdPsql == <<"p", "s", "q", "l">>
CmdEof == <<"e", "o", "f">>
CmdSleep == <<"s", "l", "e", "e", "p">>
CmdInteract == <<"i", "n", "t", "e", "r", "a", "c", "t">>
CmdComment == <<"c", "o", "m", "m", "e", "n", "t">>
ExitWord == <<"e", "x", "i", "t">>

\* parts = meta_cmd.split(' ', 1); cmd = parts[0].lower()
MetaName(meta_cmd) == Lower(SplitOnce(meta_cmd)[1])

\* arg = parts[1] if len(parts) > 1 else ""
MetaArg(meta_cmd) ==
  LET parts == SplitOnce(meta_cmd)
  IN  IF Len(parts) > 1 THEN parts[2] ELSE <<>>

\* What PTYRunner._process_meta_command does is given as a record: the new
\* prompt spec, the bytes written to the master, what is printed or done
\* (as events), and whether interactive mode is entered.
Effect(prompt, write, out, interact) ==
  [prompt |-> prompt, write |-> write, out |-> out, interact |-> interact]

\* a directive that installs the prompt spec p
SetPrompt(p) == Effect(p, <<>>, <<<<"set_prompt", p>>>>, FALSE)

\* a directive that only prints msg in red
Complain(prompt, msg) == Effect(prompt, <<>>, <<<<"report", msg>>>>, FALSE)

\* the if/elif chain of _process_meta_command (lines 210-260)
MetaEffect(cmd, arg, prompt) ==
  CASE cmd = CmdPrompt ->
         IF arg # <<>> THEN SetPrompt(CustomPrompt(arg))
         ELSE Complain(prompt, "prompt command requires argument")
    [] cmd = CmdSh -> SetPrompt(PromptPatterns.sh)
    [] cmd = CmdMysql -> SetPrompt(PromptPatterns.mysql)
    [] cmd = CmdPython -> SetPrompt(PromptPatterns.python)
    [] cmd = CmdPsql -> SetPrompt(PromptPatterns.psql)
    [] cmd = CmdEof -> Effect(prompt, <<"^D">>, <<>>, FALSE)
    [] cmd = CmdSleep ->
         IF IsFloat(arg) /\ ~IsNegative(arg)
           THEN Effect(prompt, <<>>, <<<<"sleep", Strip(arg)>>>>, FALSE)
           ELSE Complain(prompt, "sleep command requires numeric argument")
    [] cmd = CmdInteract -> Effect(prompt, <<>>, <<>>, TRUE)
    [] cmd = CmdComment -> Effect(prompt, <<>>, <<<<"note", arg>>>>, FALSE)
    [] OTHER -> Complain(prompt, "Unknown meta-command")

\* a prompt directive that installs its argument without looking at it
Mut_ProcessMetaCommand(meta_cmd, prompt) ==
  IF MetaName(meta_cmd) = CmdPrompt
    THEN SetPrompt(CustomPrompt(MetaArg(meta_cmd)))
    ELSE MetaEffect(MetaName(meta_cmd), MetaArg(meta_cmd), prompt)

\* PTYRunner._process_meta_command(master, meta_cmd), with the prompt spec
\* prompt
ProcessMetaCommand(meta_cmd, prompt) ==
  MetaEffect(MetaName(meta_cmd), MetaArg(meta_cmd), prompt)

IsMeta(line) == StartsWith(line, MetaMarker)

\* line[2:].strip()
MetaText(line) == Strip(SubSeq(line, 3, Len(line)))

\* what send_command writes: f"{command}\r".encode()
CommandBytes(command) == command \o <<"\r">>

(***************************************************************************)
(* titplay.py: the driver.                                                 *)
(***************************************************************************)
NoWait ==
  /\ buffer' = <<>> /\ data' = <<>> /\ text' = <<>>
  /\ now' = 0 /\ end_time' = 0
  /\ last_output_time' = 0 /\ prompt_found' = FALSE

\* lines 36-39 of wait_for_prompt; the clock starts at the call
StartWait ==
  /\ buffer' = <<>> /\ data' = <<>> /\ text' = <<>>
  /\ now' = 0 /\ end_time' = 0 + Timeout
  /\ last_output_time' = 0 /\ prompt_found' = FALSE

\* os.write(master, ...) fails with OSError (EIO) on some systems once the
\* child has closed the slave side, and succeeds on others
WriteOutcomes == IF child = "exited" THEN {"ok", "OSError"} ELSE {"ok"}

\* an exception leaves the try block of process_command_file: the finally
\* clause closes the master and goes on to os.waitpid
Escape(exc, evts) ==
  /\ raised' = exc
  /\ master' = "closed"
  /\ pc' = "waitpid"
  /\ events' = evts
  /\ NoWait
  /\ UNCHANGED <<script_file, silence_threshold, child_output, commands,
                 idx, current_prompt, child>>

\* process_command_file, lines 112-147: load the script, open the pty, fork
Load ==
  /\ pc = "start"
  /\ \/ /\ ~script_file.exists
        /\ commands' = <<>>
        /\ pc' = "done"
        /\ events' = Append(events, <<"report", "Command file not found">>)
        /\ NoWait
        /\ UNCHANGED <<master, child>>
     \/ /\ script_file.exists
        /\ commands' = LoadCommands(script_file.text)
        /\ master' = "open"
        /\ child' = "running"
        /\ pc' = "initial_wait"
        /\ StartWait
        /\ UNCHANGED events
  /\ UNCHANGED <<script_file, silence_threshold, child_output, idx,
                 current_prompt, raised, chunks_read, wait_eof,
                 lines_typed>>
  /\ UNCHANGED rec_vars

\* How long one pass of a polling loop is taken to last, in seconds, when
\* the model lets time pass in it: a chunk arrives this long into the
\* select, or a run of passes that change nothing lasts this long.
ArrivalOffsets == {0, 5}

\* min(self.silence_threshold, 10), the timeout of the select
SelectTimeout == Min(silence_threshold, SelectCap)

\* how long the select lasts when nothing becomes readable; a select with
\* timeout 0 polls, and a run of empty polls is one step
EmptyWaits ==
  IF SelectTimeout > 0 THEN {SelectTimeout} ELSE ArrivalOffsets

\* how long the select lasts when the master becomes readable
ReadyWaits ==
  IF SelectTimeout > 0
    THEN {w \in ArrivalOffsets : w <= SelectTimeout}
    ELSE ArrivalOffsets

\* the silence test left out
Mut_OutputIsSilent(time_since_output) == TRUE

\* a silence test that asks for more than the threshold
Mut_StrictlySilent(time_since_output) == time_since_output > silence_threshold

\* output_is_silent = time_since_output >= self.silence_threshold
OutputIsSilent(time_since_output) == time_since_output >= silence_threshold

\* a buffer that is never cut
Mut_Retained(buf) == buf

\* if len(buffer) > 1000: buffer = buffer[-500:]
Retained(buf) ==
  IF ByteLen(buf) > BufferLimit THEN LastBytes(buf, BufferKeep) ELSE buf

\* wait_for_prompt returned True at line 152 or line 167: the for loop
\* starts, or pauses 0.5 s and goes on to the next line
Confirmed ==
  /\ pc' = "dispatch"
  /\ idx' = IF pc = "initial_wait" THEN 1 ELSE idx + 1
  /\ events' = Append(events, <<"wait", TRUE>>)

\* One pass of the while loop of wait_for_prompt (lines 41-70) that ends at
\* time t; r says whether the master was readable, and d is what was read.
WaitPass(t, r, d) ==
  LET buffer1 == IF r THEN buffer \o d ELSE buffer
      text1 == IF r THEN Decode(buffer1) ELSE text
      found == IF r THEN CheckPrompt(current_prompt, text1) ELSE prompt_found
      last == IF r THEN t ELSE last_output_time
  IN  /\ buffer' = IF r THEN Retained(buffer1) ELSE buffer
      /\ data' = IF r THEN d ELSE data
      /\ text' = text1
      /\ last_output_time' = last
      /\ prompt_found' = found
      /\ now' = t
      /\ UNCHANGED end_time
      /\ IF found /\ OutputIsSilent(t - last)
           THEN Confirmed
           ELSE UNCHANGED <<pc, idx, events>>
      /\ UNCHANGED <<script_file, silence_threshold, child_output, commands,
                     current_prompt, master, child, raised, lines_typed>>

WaitIter ==
  /\ pc \in {"initial_wait", "command_wait"}
  /\ now < end_time
  /\ \/ \* nothing to read before the select times out
        /\ child = "running"
        /\ \E w \in EmptyWaits : WaitPass(now + w, FALSE, <<>>)
        /\ UNCHANGED <<chunks_read, wait_eof>>
     \/ \* the child wrote a chunk
        /\ child = "running"
        /\ chunks_read < MaxChunks
        /\ \E w \in ReadyWaits : \E d \in child_output :
              WaitPass(now + w, TRUE, d)
        /\ chunks_read' = chunks_read + 1
        /\ UNCHANGED wait_eof
     \/ \* the child has closed the slave: os.read returns b''
        /\ child = "exited"
        /\ \E w \in ArrivalOffsets : WaitPass(now + w, TRUE, <<>>)
        /\ wait_eof' = TRUE
        /\ UNCHANGED chunks_read
     \/ \* the child has closed the slave: os.read raises OSError (EIO)
        /\ child = "exited"
        /\ Escape("OSError", events)
        /\ wait_eof' = TRUE
        /\ UNCHANGED <<chunks_read, lines_typed>>
  /\ UNCHANGED rec_vars

\* the initial wait timed out and the driver goes on to the script
Mut_AfterInitialTimeout(evts) ==
  /\ events' = evts
  /\ pc' = "dispatch"
  /\ idx' = 1
  /\ UNCHANGED master

\* lines 152-154: "Failed to get initial prompt", return (through the
\* finally clause, which closes the master)
AfterInitialTimeout(evts) ==
  /\ events' = Append(evts, <<"report", "Failed to get initial prompt">>)
  /\ master' = "closed"
  /\ pc' = "waitpid"
  /\ UNCHANGED idx

\* the wait after a command timed out and the driver goes on to the next line
Mut_AfterCommandTimeout(evts) ==
  /\ events' = evts
  /\ pc' = "dispatch"
  /\ idx' = idx + 1
  /\ UNCHANGED master

\* lines 167-169: "Command failed to complete", break, on to line 173
AfterCommandTimeout(evts) ==
  /\ events' = evts \o << <<"report", "Command failed to complete">>,
                          <<"drain">> >>
  /\ pc' = "drain"
  /\ UNCHANGED <<master, idx>>

\* the while loop of wait_for_prompt ends (lines 72-74): it returns False
WaitTimeout ==
  /\ pc \in {"initial_wait", "command_wait"}
  /\ now >= end_time
  /\ LET evts == events \o << <<"report", "Timeout waiting for prompt">>,
                              <<"wait", FALSE>> >>
     IN  \/ pc = "initial_wait" /\ AfterInitialTimeout(evts)
         \/ pc = "command_wait" /\ AfterCommandTimeout(evts)
  /\ NoWait
  /\ UNCHANGED <<script_file, silence_threshold, child_output, commands,
                 current_prompt, child, raised, chunks_read, wait_eof,
                 lines_typed>>
  /\ UNCHANGED rec_vars

\* One pass of the for loop of process_command_file (lines 157-170) up to
\* the call of wait_for_prompt or of _interactive_mode, or the end of the
\* loop (line 173).
Dispatch ==
  /\ pc = "dispatch"
  /\ \/ \* the script is exhausted
        /\ idx > Len(commands)
        /\ pc' = "drain"
        /\ events' = Append(events, <<"drain">>)
        /\ NoWait
        /\ UNCHANGED <<idx, current_prompt, master, raised>>
     \/ \* a meta-command that writes nothing to the child
        /\ idx <= Len(commands)
        /\ IsMeta(commands[idx])
        /\ LET eff == ProcessMetaCommand(MetaText(commands[idx]),
                                         current_prompt)
           IN  /\ eff.write = <<>>
               /\ current_prompt' = eff.prompt
               /\ events' = events \o eff.out
               /\ pc' = IF eff.interact THEN "interact" ELSE "dispatch"
               /\ idx' = IF eff.interact THEN idx ELSE idx + 1
        /\ NoWait
        /\ UNCHANGED <<master, raised>>
     \/ \* a meta-command that writes to the child (eof)
        /\ idx <= Len(commands)
        /\ IsMeta(commands[idx])
        /\ LET eff == ProcessMetaCommand(MetaText(commands[idx]),
                                         current_prompt)
           IN  /\ eff.write # <<>>
               /\ \E res \in WriteOutcomes :
                    IF res = "ok"
                      THEN /\ events' = Append(events \o eff.out,
                                               <<"eof", Bytes(eff.write)>>)
                           /\ current_prompt' = eff.prompt
                           /\ pc' = "dispatch"
                           /\ idx' = idx + 1
                           /\ NoWait
                           /\ UNCHANGED <<master, raised>>
                      ELSE Escape(res, events)
     \/ \* a regular command: send it and wait for the prompt
        /\ idx <= Len(commands)
        /\ ~IsMeta(commands[idx])
        /\ \E res \in WriteOutcomes :
             IF res = "ok"
               THEN /\ events' = Append(events,
                                   <<"send", CommandBytes(commands[idx])>>)
                    /\ pc' = "command_wait"
                    /\ StartWait
                    /\ UNCHANGED <<idx, current_prompt, master, raised>>
               ELSE Escape(res, events)
  /\ UNCHANGED <<script_file, silence_threshold, child_output, commands,
                 child, chunks_read, wait_eof, lines_typed>>
  /\ UNCHANGED rec_vars

\* lines typed at the keyboard in interactive mode, as readline returns them
UserLines ==
  { <<"l", "s", "\n">>, <<"e", "x", "i", "t", "\n">>,
    <<" ", "E", "x", "i", "t", "\n">> }

\* _interactive_mode returns: the for loop goes on to the next line
Resume(evts) ==
  /\ pc' = "dispatch"
  /\ idx' = idx + 1
  /\ events' = evts
  /\ UNCHANGED <<master, raised>>

\* the stdin branch of _interactive_mode (lines 278-283)
TypedLine(evts, user_input) ==
  IF Lower(Strip(user_input)) = ExitWord
    THEN Resume(evts)
    ELSE /\ events' = Append(evts, <<"typed", user_input>>)
         /\ UNCHANGED <<pc, idx, master, raised>>

\* One pass of the while loop of _interactive_mode (lines 268-283); select
\* lists the master before stdin when both are readable.
InteractIter ==
  /\ pc = "interact"
  /\ \/ \* only the master is readable: a chunk
        /\ child = "running" /\ chunks_read < MaxChunks
        /\ \E d \in child_output :
              /\ events' = Append(events, <<"echo", d>>)
              /\ UNCHANGED <<pc, idx, master, raised>>
        /\ chunks_read' = chunks_read + 1
        /\ UNCHANGED lines_typed
        /\ NoWait
     \/ \* only stdin is readable
        /\ child = "running" /\ lines_typed < MaxUserLines
        /\ \E user_input \in UserLines : TypedLine(events, user_input)
        /\ lines_typed' = lines_typed + 1
        /\ UNCHANGED chunks_read
        /\ NoWait
     \/ \* both are readable: the chunk is echoed, then the line is read
        /\ child = "running" /\ chunks_read < MaxChunks
        /\ lines_typed < MaxUserLines
        /\ \E d \in child_output : \E user_input \in UserLines :
              TypedLine(Append(events, <<"echo", d>>), user_input)
        /\ chunks_read' = chunks_read + 1
        /\ lines_typed' = lines_typed + 1
        /\ NoWait
     \/ \* the child has closed the slave: os.read returns b''
        /\ child = "exited"
        /\ Resume(events)
        /\ UNCHANGED <<chunks_read, lines_typed>>
        /\ NoWait
     \/ \* the child has closed the slave: os.read raises OSError (EIO)
        /\ child = "exited"
        /\ Escape("OSError", events)
        /\ UNCHANGED <<chunks_read, lines_typed>>
  /\ UNCHANGED <<script_file, silence_threshold, child_output, commands,
                 current_prompt, child, wait_eof>>
  /\ UNCHANGED rec_vars

\* One pass of the final read loop (lines 178-190); leaving it, the try
\* block ends and the finally clause closes the master (line 196).
DrainIter ==
  /\ pc = "drain"
  /\ \/ \* a chunk is read and echoed; the loop has no limit of its own,
        \* so these passes are not counted
        /\ child = "running"
        /\ \E d \in child_output : data' = d
        /\ UNCHANGED <<pc, master>>
     \/ \* nothing for 1.0 s: break
        /\ child = "running"
        /\ pc' = "waitpid" /\ master' = "closed"
        /\ data' = <<>>
     \/ \* the child has closed the slave: b'' (break) or OSError (caught)
        /\ child = "exited"
        /\ pc' = "waitpid" /\ master' = "closed"
        /\ data' = <<>>
  /\ buffer' = <<>> /\ text' = <<>>
  /\ now' = 0 /\ end_time' = 0
  /\ last_output_time' = 0 /\ prompt_found' = FALSE
  /\ UNCHANGED chunks_read
  /\ UNCHANGED <<script_file, silence_threshold, child_output, commands, idx,
                 current_prompt, child, raised, events, wait_eof,
                 lines_typed>>
  /\ UNCHANGED rec_vars

\* os.waitpid(pid, 0) in the finally clause (lines 197-200) returns once
\* the child has exited
Waitpid ==
  /\ pc = "waitpid"
  /\ child = "exited"
  /\ child' = "reaped"
  /\ pc' = "done"
  /\ UNCHANGED <<script_file, silence_threshold, child_output, commands, idx,
                 current_prompt, master, raised, buffer, data, text, now,
                 end_time, last_output_time, prompt_found, events,
                 chunks_read, wait_eof, lines_typed>>
  /\ UNCHANGED rec_vars

\* the forked bash exits and the slave side of the pty closes
ChildExit ==
  /\ child = "running"
  /\ child' = "exited"
  /\ UNCHANGED <<script_file, silence_threshold, child_output, commands, pc,
                 idx, current_prompt, master, raised, buffer, data, text, now,
                 end_time, last_output_time, prompt_found, events,
                 chunks_read, wait_eof, lines_typed>>
  /\ UNCHANGED rec_vars

\* SIGINT reaches the driver inside the try block: except KeyboardInterrupt
\* (lines 192-193), then the finally clause
Interrupt ==
  /\ pc \in {"initial_wait", "dispatch", "command_wait", "interact", "drain"}
  /\ events' = Append(events, <<"report", "Interrupted by user">>)
  /\ master' = "closed"
  /\ pc' = "waitpid"
  /\ NoWait
  /\ UNCHANGED <<script_file, silence_threshold, child_output, commands, idx,
                 current_prompt, child, raised, chunks_read, wait_eof,
                 lines_typed>>
  /\ UNCHANGED rec_vars

\* a file, as the text in it
File(lines) == [exists |-> TRUE, text |-> WriteLines(lines)]
NoFile == [exists |-> FALSE, text |-> <<>>]

(***************************************************************************)
(* titrec.py: SessionRecorder.                                             *)
(***************************************************************************)
RecSelectCap == 10
RecReadSize == 1024

PromptSh == <<"$", " ">>
PromptMysql == <<"m", "y", "s", "q", "l", ">", " ">>
PromptPython == <<">", ">", ">", " ">>

\* self.prompt_map
PromptMap ==
  (PromptSh :> CmdSh) @@ (PromptMysql :> CmdMysql)
    @@ (PromptPython :> CmdPython)

\* self.prompt_map.get(clean_prompt, f"prompt {clean_prompt}")
PromptCommand(clean_prompt) ==
  IF clean_prompt \in DOMAIN PromptMap THEN PromptMap[clean_prompt]
  ELSE CmdPrompt \o <<" ">> \o clean_prompt

\* f"#> {prompt_command}"
Directive(clean_prompt) == MetaMarker \o <<" ">> \o PromptCommand(clean_prompt)

\* decoded_data.split('\n')[-1]; decoded text is kept run-length coded
RECURSIVE AfterLastNewline(_)
AfterLastNewline(decoded_data) ==
  IF \E i \in 1..Len(decoded_data) : decoded_data[i].c = "\n"
    THEN AfterLastNewline(Tail(decoded_data))
    ELSE decoded_data

\* lines 118-124: the prompt line is everything since the last newline
UpdatePrompt(prompt, decoded_data) ==
  IF \E i \in 1..Len(decoded_data) : decoded_data[i].c = "\n"
    THEN AfterLastNewline(decoded_data)
    ELSE prompt \o decoded_data

\* a prompt directive that is recorded whenever the prompt line is not
\* empty
Mut_RecordsPrompt(silent, clean_prompt, last) ==
  silent /\ clean_prompt # <<>>

\* line 165: output_is_silent and clean_prompt and
\* clean_prompt != last_recorded_prompt
RecordsPrompt(silent, clean_prompt, last) ==
  silent /\ clean_prompt # <<>> /\ clean_prompt # last

EnterKeys == {"\r", "\n"}

\* Lines 163-185 for a key that was written to the master: the recorded
\* commands, the last recorded prompt and the command typed so far.
OnKey(key, silent, prompt, last, cmds, sofar) ==
  LET clean_prompt == Expand(StripAnsi(prompt))
      rec == RecordsPrompt(silent, clean_prompt, last)
      cmds1 == IF rec THEN Append(cmds, Directive(clean_prompt)) ELSE cmds
      last1 == IF rec THEN clean_prompt ELSE last
  IN  IF key \in EnterKeys
        THEN [cmds |-> IF sofar # <<>> THEN Append(cmds1, sofar) ELSE cmds1,
              last |-> last1,
              sofar |-> <<>>]
        ELSE [cmds |-> cmds1, last |-> last1, sofar |-> Append(sofar, key)]

\* header lines that are not comments
Mut_HeaderLines ==
  << <<"r", "e", "c", "o", "r", "d", "e", "d">> >>

\* the three lines finalize_recording writes first
HeaderLines ==
  << <<"#", " ", "A", "u", "t", "o", "m", "a", "t", "i", "c", "a", "l",
       "l", "y", " ", "r", "e", "c", "o", "r", "d", "e", "d", " ",
       "s", "e", "s", "s", "i", "o", "n">>,
     <<"#", " ", "C", "o", "m", "m", "a", "n", "d", "s", " ", "w", "i",
       "l", "l", " ", "b", "e", " ", "r", "e", "p", "l", "a", "y",
       "e", "d", " ", "a", "c", "c", "o", "r", "d", "i", "n", "g",
       " ", "t", "o", " ", "p", "r", "o", "m", "p", "t", "s">>,
     <<"#", " ", "S", "e", "e", " ", "h", "t", "t", "p", "s", ":", "/",
       "/", "g", "i", "t", "h", "u", "b", ".", "c", "o", "m", "/",
       "C", "a", "p", "n", "K", "e", "r", "n", "e", "l", "/", "t",
       "e", "r", "m", "i", "t", " ", "f", "o", "r", " ", "d", "e",
       "t", "a", "i", "l", "s">> >>

\* a finalize_recording that writes the commands only
Mut_Transcript(cmds) == WriteLines(cmds)

\* the text finalize_recording writes for a non-empty list of commands
Transcript(cmds) == WriteLines(HeaderLines \o cmds)

\* what a select pass finds on the master: nothing, a chunk, or the end of
\* file (os.read returns b'' or raises OSError)
NotReady == <<>>
Eof == <<Run("EOF", 0)>>
MasterReads ==
  IF rec_child = "exited" THEN {Eof}
  ELSE {NotReady} \cup (IF rec_chunks < MaxRecChunks THEN shell_output ELSE {})

\* what it finds on stdin: nothing ("none"), or the next key; "EOF" stands
\* for the empty string sys.stdin.read(1) returns at end of input
StdinReads ==
  {"none"} \cup (IF keyboard # <<>> THEN {Head(keyboard)} ELSE {})

StopKeys == {"EOF", "^T"}

\* a recorder that also writes the stop key to the master
Mut_Forwarded(k) == k \notin {"none", "EOF"} \cup InvalidUtf8

\* lines 139-154: the keys that are written to the master
Forwarded(k) == k \notin {"none"} \cup StopKeys \cup InvalidUtf8

\* a recorder that goes on after the end of the keyboard input
Mut_Stops(d, k) == d = Eof \/ k \in {"^T"} \cup InvalidUtf8

\* what ends the while loop: the end of file on the master (lines 102-105,
\* 127-130), the end of input or Ctrl+T on stdin (lines 140-149), and an
\* exception (sys.stdin.read on a byte that is not valid UTF-8)
Stops(d, k) == d = Eof \/ k \in StopKeys \cup InvalidUtf8

\* min(self.silence_threshold, 10)
RecSelectTimeout == Min(rec_silence_threshold, RecSelectCap)

RecordThresholds == {0, 5}
IdleCap == CHOOSE x \in RecordThresholds : \A y \in RecordThresholds : y <= x

\* One pass of the while loop (lines 87-195), with t seconds since the
\* last output at the return of select, d read from the master, k read from stdin and the
\* write of k to the master ending as wr.  The outcome is a record.
Pass(t, d, k, wr) ==
  LET silent == t >= rec_silence_threshold
      child_exited == d = Eof
      chunk == d # NotReady /\ ~child_exited
      prompt == IF chunk
                  THEN UpdatePrompt(rec_current_prompt, Decode(d))
                  ELSE rec_current_prompt
      typed == Forwarded(k) /\ wr = "ok"
      on == OnKey(k, silent, prompt, last_recorded_prompt,
                  recorded_commands, command_so_far)
  IN  [ silent |-> silent,
        idle |-> IF chunk THEN 0 ELSE t,
        chunks |-> IF chunk THEN rec_chunks + 1 ELSE rec_chunks,
        prompt |-> prompt,
        keyboard |-> IF k = "none" THEN keyboard ELSE Tail(keyboard),
        char |-> IF k \in {"none"} \cup InvalidUtf8
                   THEN user_char_just_read ELSE k,
        to_child |-> IF typed THEN Append(to_child, k) ELSE to_child,
        cmds |-> IF typed THEN on.cmds ELSE recorded_commands,
        last |-> IF typed THEN on.last ELSE last_recorded_prompt,
        sofar |-> IF typed THEN on.sofar ELSE command_so_far,
        child |-> IF wr = "OSError" THEN "exited" ELSE rec_child,
        stop |-> Stops(d, k),
        caught |-> IF k \in InvalidUtf8 THEN <<"Unexpected error">>
                   ELSE <<>> ]

\* The except and finally clauses of record_session (lines 197-212), up to
\* the os.waitpid, with finalize_recording (lines 214-225) in the middle:
\* when open() raises there, the rest of the finally clause is not run.
Finally(cmds, caught) ==
  /\ sigint' = "default"
  /\ stdin_settings' = "cooked"
  /\ \E opened \in output_writable :
       IF cmds # <<>> /\ ~opened
         THEN /\ rec_raised' = "OSError"
              /\ rec_pc' = "done"
              /\ rec_report' = rec_report \o caught \o <<"Recorded">>
              /\ UNCHANGED <<output_file, rec_master, child_signalled>>
         ELSE /\ output_file' =
                   IF cmds # <<>>
                     THEN [exists |-> TRUE, text |-> Transcript(cmds)]
                     ELSE output_file
              /\ rec_report' =
                   rec_report \o caught
                     \o (IF cmds # <<>> THEN <<"Recorded">>
                         ELSE <<"No commands recorded">>)
              /\ rec_master' = "closed"
              /\ child_signalled' = TRUE
              /\ rec_pc' = "waitpid"
              /\ UNCHANGED rec_raised

\* record_session, lines 32-83: the pty, raw stdin, the fork, the handler
RecStart ==
  /\ rec_pc = "start"
  /\ rec_pc' = "loop"
  /\ rec_master' = "open"
  /\ rec_child' = "running"
  /\ stdin_settings' = "raw"
  /\ sigint' = "forward"
  /\ recorded_commands' = <<>>
  /\ since_output' = 0
  /\ rec_current_prompt' = <<>>
  /\ last_recorded_prompt' = <<>>
  /\ command_so_far' = <<>>
  /\ recording' = TRUE
  /\ UNCHANGED <<rec_silence_threshold, output_writable, keyboard,
                 shell_output, output_is_silent, user_char_just_read,
                 child_signalled, sigints_forwarded, rec_raised, output_file,
                 to_child, rec_chunks, rec_report>>
  /\ UNCHANGED replay_vars

\* one pass of the while loop and, when it ends the loop, the except and
\* finally clauses
RecIter ==
  /\ rec_pc = "loop"
  /\ \E w \in ArrivalOffsets, d \in MasterReads, k \in StdinReads,
        wr \in {"ok", "OSError"} :
       /\ w <= RecSelectTimeout
       /\ (d = NotReady /\ k = "none") => w = RecSelectTimeout
       /\ d = Eof => (w = 0 /\ k = "none")
       /\ wr = "OSError" => Forwarded(k)
       /\ \E it \in {Pass(Min(since_output + w, IdleCap), d, k, wr)} :
              /\ output_is_silent' = it.silent
              /\ since_output' = it.idle
              /\ rec_chunks' = it.chunks
              /\ rec_current_prompt' = it.prompt
              /\ keyboard' = it.keyboard
              /\ user_char_just_read' = it.char
              /\ to_child' = it.to_child
              /\ recorded_commands' = it.cmds
              /\ last_recorded_prompt' = it.last
              /\ command_so_far' = it.sofar
              /\ rec_child' = it.child
              /\ recording' = ~it.stop
              /\ IF it.stop THEN Finally(it.cmds, it.caught)
                 ELSE UNCHANGED <<rec_pc, sigint, stdin_settings, rec_raised,
                                  rec_report, output_file, rec_master,
                                  child_signalled>>
  /\ UNCHANGED <<rec_silence_threshold, output_writable, shell_output,
                 sigints_forwarded>>
  /\ UNCHANGED replay_vars

\* os.waitpid(self.child_pid, 0) returns once the child has exited
RecWaitpid ==
  /\ rec_pc = "waitpid"
  /\ rec_child = "exited"
  /\ rec_child' = "reaped"
  /\ rec_pc' = "done"
  /\ UNCHANGED <<rec_silence_threshold, output_writable, keyboard,
                 shell_output, recorded_commands, since_output,
                 rec_current_prompt, last_recorded_prompt, command_so_far,
                 recording, output_is_silent, user_char_just_read,
                 rec_master, child_signalled, sigints_forwarded,
                 stdin_settings, sigint, rec_raised, output_file, to_child,
                 rec_chunks, rec_report>>
  /\ UNCHANGED replay_vars

\* the recorded bash exits and the slave side of the pty closes
RecChildExit ==
  /\ rec_pc \in {"loop", "waitpid"}
  /\ rec_child = "running"
  /\ rec_child' = "exited"
  /\ UNCHANGED <<rec_silence_threshold, output_writable, keyboard,
                 shell_output, rec_pc, recorded_commands, since_output,
                 rec_current_prompt, last_recorded_prompt, command_so_far,
                 recording, output_is_silent, user_char_just_read,
                 rec_master, child_signalled, sigints_forwarded,
                 stdin_settings, sigint, rec_raised, output_file, to_child,
                 rec_chunks, rec_report>>
  /\ UNCHANGED replay_vars

\* SIGINT reaches the recorder while the handler forward_sigint (lines
\* 66-71) is installed: it sends SIGINT to the child, and the loop goes on
RecSigint ==
  /\ rec_pc = "loop"
  /\ sigint = "forward"
  /\ sigints_forwarded < MaxSigints
  /\ sigints_forwarded' = sigints_forwarded + 1
  /\ UNCHANGED <<rec_silence_threshold, output_writable, keyboard,
                 shell_output, rec_pc, recorded_commands, since_output,
                 rec_current_prompt, last_recorded_prompt, command_so_far,
                 recording, output_is_silent, user_char_just_read,
                 rec_master, rec_child, child_signalled, stdin_settings,
                 sigint, rec_raised, output_file, to_child, rec_chunks,
                 rec_report>>
  /\ UNCHANGED replay_vars

\* the recorder before record_session is called
RecordOff ==
  /\ rec_pc = "off"
  /\ rec_silence_threshold = 0
  /\ output_writable = {TRUE}
  /\ keyboard = <<>>
  /\ shell_output = {}
  /\ recorded_commands = <<>>
  /\ since_output = 0
  /\ rec_current_prompt = <<>>
  /\ last_recorded_prompt = <<>>
  /\ command_so_far = <<>>
  /\ recording = FALSE
  /\ output_is_silent = FALSE
  /\ user_char_just_read = "none"
  /\ rec_master = "none"
  /\ rec_child = "none"
  /\ child_signalled = FALSE
  /\ sigints_forwarded = 0
  /\ stdin_settings = "cooked"
  /\ sigint = "default"
  /\ rec_raised = "none"
  /\ output_file = NoFile
  /\ to_child = <<>>
  /\ rec_chunks = 0
  /\ rec_report = <<>>

(***************************************************************************)
(* Replay: the runs that are checked.                                      *)
(***************************************************************************)

\* PTYRunner.__init__ and the state before process_command_file
ReplayStart ==
  /\ commands = <<>>
  /\ pc = "start"
  /\ idx = 0
  /\ current_prompt = DefaultPrompt
  /\ master = "none"
  /\ child = "none"
  /\ raised = "none"
  /\ buffer = <<>> /\ data = <<>> /\ text = <<>>
  /\ now = 0 /\ end_time = 0 /\ last_output_time = 0
  /\ prompt_found = FALSE
  /\ events = <<>>
  /\ chunks_read = 0
  /\ wait_eof = FALSE
  /\ lines_typed = 0

\* script lines
L_sh == <<"#", ">", " ", "s", "h">>
L_echo_hello == <<"e", "c", "h", "o", " ", "h", "e", "l", "l", "o">>
L_sleep_1 == <<"#", ">", " ", "s", "l", "e", "e", "p", " ", "1">>
L_echo_done == <<"e", "c", "h", "o", " ", "d", "o", "n", "e">>
L_ls == <<"l", "s">>
L_pwd == <<"p", "w", "d">>
L_note == <<"#", " ", "n", "o", "t", "e">>
L_blank == <<" ", " ">>
\* the same directive lines behind a leading space
Indented(line) == <<" ">> \o line
L_frobnicate == <<"#", ">", " ", "f", "r", "o", "b", "n", "i", "c", "a", "t", "e">>
L_sleep_x == <<"#", ">", " ", "s", "l", "e", "e", "p", " ", "x">>
L_sleep_neg == <<"#", ">", " ", "s", "l", "e", "e", "p", " ", "-", "1">>
L_prompt == <<"#", ">", " ", "p", "r", "o", "m", "p", "t">>
L_prompt_pct == <<"#", ">", " ", "p", "r", "o", "m", "p", "t", " ", "%">>
L_python == <<"#", ">", "P", "y", "t", "h", "o", "n">>
L_mysql == <<"#", ">", " ", "m", "y", "s", "q", "l">>
L_psql == <<"#", ">", " ", "p", "s", "q", "l">>
L_eof == <<"#", ">", " ", "e", "o", "f">>
L_interact == <<"#", ">", " ", "i", "n", "t", "e", "r", "a", "c", "t">>
L_comment == <<"#", ">", " ", "c", "o", "m", "m", "e", "n", "t", " ", "h", "i">>

\* the scenario of the specification
ScenarioScript == <<L_sh, L_echo_hello, L_sleep_1, L_echo_done>>

ReplayScripts ==
  { ScenarioScript,
    <<Indented(L_sh), L_echo_hello, Indented(L_sleep_1), L_echo_done>>,
    <<Indented(L_frobnicate), L_ls>>,
    <<Indented(L_sleep_x), Indented(L_prompt), L_ls>>,
    <<Indented(L_sleep_neg), L_note, L_ls>>,
    <<Indented(L_prompt_pct), L_ls, Indented(L_python), L_pwd>>,
    <<Indented(L_mysql), Indented(L_psql), L_ls>>,
    <<Indented(L_eof), L_ls>>,
    <<Indented(L_interact), L_ls>>,
    <<Indented(L_comment), L_blank, L_ls>> }

\* chunks of child output
K_prompt == Bytes(<<"$", " ">>)
K_line == Bytes(<<"a", "\r", "\n">>)
K_pct == Bytes(<<"%">>)

ReplayChunks == {K_prompt, K_line, K_pct}

InitReplay ==
  /\ script_file \in {File(lines) : lines \in ReplayScripts} \cup {NoFile}
  /\ silence_threshold \in {0, 5, 15}
  /\ child_output = ReplayChunks
  /\ \A d \in child_output : ByteLen(d) <= ReadSize
  /\ ReplayStart
  /\ RecordOff

NextReplay ==
  \/ Load
  \/ WaitIter
  \/ WaitTimeout
  \/ Dispatch
  \/ InteractIter
  \/ DrainIter
  \/ Waitpid
  \/ ChildExit
  \/ Interrupt

Spec == InitReplay /\ [][NextReplay]_vars

\* Output with a bare newline after a prompt-like text, and output long
\* enough to overflow the buffer of wait_for_prompt.
K_bare == Bytes(<<"\n", "b">>)
K_big == <<Run("x", 600)>>
OutputChunks == {K_prompt, K_bare, K_big}

\* Replays of one short script whose child writes such output.
InitOutput ==
  /\ script_file = File(<<Indented(L_interact), L_ls>>)
  /\ silence_threshold \in {0, 5}
  /\ child_output = OutputChunks
  /\ \A d \in child_output : ByteLen(d) <= ReadSize
  /\ ReplayStart
  /\ RecordOff

SpecOutput == InitOutput /\ [][NextReplay]_vars

\* Replays of one short script, for the properties of progress.
InitFair ==
  /\ script_file \in {File(<<Indented(L_interact), L_ls>>), NoFile}
  /\ silence_threshold = 0
  /\ child_output = {K_prompt, K_line}
  /\ ReplayStart
  /\ RecordOff

\* The driver does not stand still in draining or in teardown: a pass of
\* the draining loop, and the reaping of an exited child, are taken
\* whenever they can be.  The child exits when it will.
SpecFair ==
  InitFair /\ [][NextReplay]_vars /\ WF_vars(DrainIter) /\ WF_vars(Waitpid)

(***************************************************************************)
(* Properties of replay.                                                   *)
(***************************************************************************)
EventsOf(tags) == SelectSeq(events, LAMBDA e : e[1] \in tags)
Sends == EventsOf({"send"})
WritesToChild == EventsOf({"send", "eof", "typed"})
Happened(e) == \E i \in 1..Len(events) : events[i] = e
TimedOut == Happened(<<"wait", FALSE>>)
Interrupted == Happened(<<"report", "Interrupted by user">>)
InWait == pc \in {"initial_wait", "command_wait"}

\* wait_for_prompt has just returned True: its locals are as it left them
WaitJustConfirmed == pc = "dispatch" /\ end_time = Timeout

\* C1: a prompt wait returns True only when the output accumulated up to the
\* chunk received last matches the current prompt spec and at least
\* silence_threshold has passed since the last read; every chunk received
\* resets the silence clock and replaces the pending match by a new check of
\* the buffer with that chunk appended.
C1_ConfirmedOnlyWhenSettled ==
  /\ [](WaitJustConfirmed =>
          /\ prompt_found
          /\ CheckPrompt(current_prompt, text)
          /\ now - last_output_time >= silence_threshold)
  /\ [][(InWait /\ chunks_read' # chunks_read) =>
          /\ last_output_time' = now'
          /\ text' = Decode(buffer \o data')
          /\ prompt_found' = CheckPrompt(current_prompt, text')]_vars

\* a wait confirmed after silence, on a match that a later chunk had
\* invalidated and a still later one restored
C1_Witness ==
  /\ WaitJustConfirmed
  /\ silence_threshold > 0
  /\ text = K_prompt \o K_line \o K_prompt

\* the script lines that are not meta-commands, in order
OrdinaryLines == SelectSeq(commands, LAMBDA line : ~IsMeta(line))

\* how many waits returned True before event j
ConfirmedBefore(j) ==
  Cardinality({i \in 1..(j - 1) : events[i] = <<"wait", TRUE>>})

SendsBefore(j) == Cardinality({i \in 1..(j - 1) : events[i][1] = "send"})

\* C2: the ordinary script lines are written to the child in script order,
\* each as its text followed by one carriage return, and the k-th of them is
\* written only after k waits have returned True (the initial one and the
\* one after each earlier command).
C2_CommandsInOrderAfterConfirmation ==
  /\ Len(Sends) <= Len(OrdinaryLines)
  /\ \A k \in 1..Len(Sends) :
        Sends[k] = <<"send", OrdinaryLines[k] \o <<"\r">>>>
  /\ \A j \in 1..Len(events) :
        events[j][1] = "send" => ConfirmedBefore(j) = SendsBefore(j) + 1

\* both commands of a script were sent and the session ended
C2_Witness == pc = "done" /\ Len(Sends) = 2 /\ ~TimedOut

\* the loader as the script format describes it: a line is dropped when it
\* is blank or starts with '#' but not with '#>'
ClaimedKeepLine(line) ==
  /\ Strip(line) # <<>>
  /\ StartsWith(line, <<"#">>) => StartsWith(line, MetaMarker)

RECURSIVE ClaimedSelect(_)
ClaimedSelect(lines) ==
  IF lines = <<>> THEN <<>>
  ELSE (IF ClaimedKeepLine(Head(lines)) THEN <<Strip(Head(lines))>> ELSE <<>>)
         \o ClaimedSelect(Tail(lines))

\* C3: the loaded script is the file's lines without the blank lines and the
\* lines that start with '#' but not with '#>'; the lines that start with
\* '#>' are kept, in file order, for the meta-command handler.
C3_LoaderKeepsMetaLines ==
  (pc # "start" /\ script_file.exists) =>
     commands = ClaimedSelect(FileLines(script_file.text))

\* C4: when a read in a prompt wait meets the closed slave, the session ends
\* in Done gracefully: no timeout or failed command is reported and no
\* exception leaves the driver.
C4_ChildEofEndsGracefully ==
  (wait_eof /\ pc = "done") =>
     /\ raised = "none"
     /\ ~TimedOut
     /\ ~Happened(<<"report", "Command failed to complete">>)
     /\ ~Happened(<<"report", "Failed to get initial prompt">>)

\* C5: once a prompt wait has timed out, no script line is sent or
\* dispatched any more (the for loop does not move, the prompt spec stays,
\* nothing is written to the child), the driver is in the final read loop
\* or in the teardown, and the teardown has closed the master.
C5_TimeoutAbortsScript ==
  /\ [](TimedOut => pc \in {"drain", "waitpid", "done"})
  /\ [](TimedOut /\ pc \in {"waitpid", "done"} => master = "closed")
  /\ [](TimedOut /\ pc = "done" => child = "reaped")
  /\ [][TimedOut' =>
          /\ idx' = idx
          /\ current_prompt' = current_prompt
          /\ WritesToChild' = WritesToChild]_vars

\* a command timed out with script lines left, and the session ended
C5_Witness ==
  /\ TimedOut /\ pc = "done"
  /\ 0 < idx /\ idx < Len(commands)
  /\ master = "closed"

KnownNames ==
  {CmdPrompt, CmdSh, CmdMysql, CmdPython, CmdPsql, CmdEof, CmdSleep,
   CmdInteract, CmdComment}

\* the line is a directive with an unknown name, a sleep whose argument is
\* no number, or a prompt without argument
FaultyDirective(line) ==
  /\ IsMeta(line)
  /\ LET name == MetaName(MetaText(line))
         arg == MetaArg(MetaText(line))
     IN  \/ name \notin KnownNames
         \/ name = CmdSleep /\ ~IsFloat(arg)
         \/ name = CmdPrompt /\ arg = <<>>

\* the step is taken by the driver, not by the child or by an interrupt
DriverStep ==
  /\ child' = child
  /\ ~(Interrupted' /\ ~Interrupted)

ScenarioActions ==
  << <<"set_prompt", PromptPatterns.sh>>,
     <<"send", CommandBytes(L_echo_hello)>>,
     <<"wait", TRUE>>,
     <<"sleep", <<"1">>>>,
     <<"send", CommandBytes(L_echo_done)>>,
     <<"wait", TRUE>>,
     <<"drain">> >>

\* C7: directives take effect at their position in the script; for the
\* script "#> sh", "echo hello", "#> sleep 1", "echo done" a session that
\* runs to Done without timeout, interrupt or error does exactly: set the
\* shell patterns, send "echo hello\r", wait, sleep 1, send "echo done\r",
\* wait, drain.
C7_ScenarioActionsInOrder ==
  (/\ script_file = File(ScenarioScript)
   /\ pc = "done" /\ raised = "none" /\ ~TimedOut /\ ~Interrupted) =>
     /\ events[1] = <<"wait", TRUE>>
     /\ Tail(events) = ScenarioActions

(***************************************************************************)
(* Record: the runs that are checked.                                      *)
(***************************************************************************)

\* titplay before it is started
ReplayOff ==
  /\ script_file = NoFile
  /\ silence_threshold = 0
  /\ child_output = {}
  /\ commands = <<>>
  /\ pc = "off"
  /\ idx = 0
  /\ current_prompt = DefaultPrompt
  /\ master = "none"
  /\ child = "none"
  /\ raised = "none"
  /\ buffer = <<>> /\ data = <<>> /\ text = <<>>
  /\ now = 0 /\ end_time = 0 /\ last_output_time = 0
  /\ prompt_found = FALSE
  /\ events = <<>>
  /\ chunks_read = 0
  /\ wait_eof = FALSE
  /\ lines_typed = 0

\* SessionRecorder.__init__ and the state before record_session
RecordStart ==
  /\ rec_pc = "start"
  /\ recorded_commands = <<>>
  /\ since_output = 0
  /\ rec_current_prompt = <<>>
  /\ last_recorded_prompt = <<>>
  /\ command_so_far = <<>>
  /\ recording = FALSE
  /\ output_is_silent = FALSE
  /\ user_char_just_read = "none"
  /\ rec_master = "none"
  /\ rec_child = "none"
  /\ child_signalled = FALSE
  /\ sigints_forwarded = 0
  /\ stdin_settings = "cooked"
  /\ sigint = "default"
  /\ rec_raised = "none"
  /\ output_file = NoFile
  /\ to_child = <<>>
  /\ rec_chunks = 0
  /\ rec_report = <<>>

\* what the user types
KB_ls_pwd == <<"l", "s", "\r", "p", "w", "d", "\r", "^T">>
KB_newline_eof == <<"a", "\n", "EOF">>
KB_invalid == <<"\r", "0xFF">>
RecordKeyboards == {KB_ls_pwd, KB_newline_eof, KB_invalid}

\* chunks of shell output
R_python == Bytes(PromptPython)
R_reset == Bytes(<<"ESC", "[", "0", "m">>)
RecordChunks == {K_prompt, K_line, R_python, R_reset}

InitRecord ==
  /\ rec_silence_threshold \in RecordThresholds
  /\ output_writable = BOOLEAN
  /\ keyboard \in RecordKeyboards
  /\ shell_output = RecordChunks
  /\ \A d \in shell_output : ByteLen(d) <= RecReadSize
  /\ RecordStart
  /\ ReplayOff

NextRecord ==
  \/ RecStart
  \/ RecIter
  \/ RecWaitpid
  \/ RecChildExit
  \/ RecSigint

SpecRecord == InitRecord /\ [][NextRecord]_vars

(***************************************************************************)
(* Record, then replay of the recorded file.                               *)
(***************************************************************************)
EchoA == <<"e", "c", "h", "o", " ", "a">>
EchoB == <<"e", "c", "h", "o", " ", "b">>
EchoKeys == EchoA \o <<"\r">> \o EchoB \o <<"\r">>
RoundTripChunks == {K_prompt, K_line}

InitRoundTrip ==
  /\ rec_silence_threshold \in RecordThresholds
  /\ output_writable = {TRUE}
  /\ keyboard = EchoKeys \o <<"^T">>
  /\ shell_output = RoundTripChunks
  /\ RecordStart
  /\ ReplayOff

\* The recorder process has ended, and with it its locals; the user, who
\* has typed every key, runs titplay on the file it has written.
Handoff ==
  /\ rec_pc = "done"
  /\ keyboard = <<>>
  /\ pc = "off"
  /\ output_file.exists
  /\ script_file' = output_file
  /\ silence_threshold' \in RecordThresholds
  /\ child_output' = RoundTripChunks
  /\ pc' = "start"
  /\ rec_pc' = "off"
  /\ rec_silence_threshold' = 0
  /\ shell_output' = {}
  /\ recorded_commands' = <<>>
  /\ since_output' = 0
  /\ rec_current_prompt' = <<>>
  /\ last_recorded_prompt' = <<>>
  /\ command_so_far' = <<>>
  /\ output_is_silent' = FALSE
  /\ user_char_just_read' = "none"
  /\ rec_master' = "none"
  /\ rec_child' = "none"
  /\ child_signalled' = FALSE
  /\ sigints_forwarded' = 0
  /\ rec_chunks' = 0
  /\ rec_report' = <<>>
  /\ UNCHANGED <<output_writable, keyboard, recording, stdin_settings,
                 sigint, rec_raised, output_file, to_child>>
  /\ UNCHANGED <<commands, idx, current_prompt, master, child, raised,
                 buffer, data, text, now, end_time, last_output_time,
                 prompt_found, events, chunks_read, wait_eof, lines_typed>>

NextRoundTrip ==
  \/ RecStart
  \/ RecIter
  \/ RecWaitpid
  \/ RecChildExit
  \/ RecSigint
  \/ Handoff
  \/ Load
  \/ WaitIter
  \/ WaitTimeout
  \/ Dispatch
  \/ DrainIter
  \/ Waitpid
  \/ ChildExit
  \/ Interrupt

SpecRoundTrip == InitRoundTrip /\ [][NextRoundTrip]_vars

(***************************************************************************)
(* Properties of recording and of the round trip.                          *)
(***************************************************************************)
IsPrefix(s, t) == Len(s) <= Len(t) /\ SubSeq(t, 1, Len(s)) = s

\* what replay is to send for the session echo a, echo b
EchoSends ==
  << <<"send", EchoA \o <<"\r">> >>, <<"send", EchoB \o <<"\r">> >> >>

\* replay ran to the end of the script with every wait confirmed
ReplayCompleted ==
  pc = "done" /\ raised = "none" /\ ~TimedOut /\ ~Interrupted

\* C8: when the user has typed echo a, Enter, echo b, Enter in a record
\* session and the file finalize_recording wrote is loaded and replayed,
\* replay writes to its child only the commands "echo a\r" and "echo b\r",
\* in this order, and writes both when it runs to the end of the script.
C8_RoundTripSendsRecordedCommands ==
  pc # "off" =>
    /\ to_child = EchoKeys
    /\ WritesToChild = Sends
    /\ IsPrefix(Sends, EchoSends)
    /\ ReplayCompleted => Sends = EchoSends

\* a replay that has sent both commands, of a file that holds a recorded
\* prompt directive besides them
C8_Witness ==
  /\ ReplayCompleted
  /\ to_child = EchoKeys
  /\ Sends = EchoSends
  /\ \E i \in 1..Len(FileLines(script_file.text)) :
        FileLines(script_file.text)[i] = Append(Directive(PromptSh), "\n")

\* the escape-stripped prompt line
Clean(prompt) == Expand(StripAnsi(prompt))
CleanPrompt == Clean(rec_current_prompt)

\* this step wrote a key to the master
KeyStep == to_child' # to_child
KeyWritten == to_child'[Len(to_child')]

\* what this step appended to the transcript
Appended ==
  SubSeq(recorded_commands', Len(recorded_commands) + 1,
         Len(recorded_commands'))

\* ... leaving out the command that the Enter key completes
DirectivesAppended ==
  IF KeyStep /\ KeyWritten \in {"\r", "\n"} /\ command_so_far # <<>>
    THEN SubSeq(Appended, 1, Len(Appended) - 1)
    ELSE Appended

\* the directive for a prompt text
ExpectedDirective(prompt_text) ==
  <<"#", ">", " ">> \o
    (CASE prompt_text = <<"$", " ">> -> <<"s", "h">>
       [] prompt_text = <<"m", "y", "s", "q", "l", ">", " ">> ->
            <<"m", "y", "s", "q", "l">>
       [] prompt_text = <<">", ">", ">", " ">> ->
            <<"p", "y", "t", "h", "o", "n">>
       [] OTHER -> <<"p", "r", "o", "m", "p", "t", " ">> \o prompt_text)

\* the prompt directives of the transcript, in order
RecordedDirectives ==
  SelectSeq(recorded_commands, LAMBDA c : StartsWith(c, <<"#", ">", " ">>))

NoDirectiveTwiceInARow ==
  \A i \in 1..(Len(RecordedDirectives) - 1) :
     RecordedDirectives[i] # RecordedDirectives[i + 1]

\* what follows the recording of a directive, and what follows when none
\* is recorded
DirectiveAsSpecified ==
  /\ DirectivesAppended # <<>> =>
       /\ DirectivesAppended = <<ExpectedDirective(Clean(rec_current_prompt'))>>
       /\ last_recorded_prompt' = Clean(rec_current_prompt')
  /\ DirectivesAppended = <<>> => UNCHANGED last_recorded_prompt

C10_TeardownOnEveryExit ==
  rec_pc = "done" =>
    /\ stdin_settings = "cooked"
    /\ sigint = "default"
    /\ rec_master = "closed"
    /\ child_signalled
    /\ rec_child = "reaped"

\* C11: an interrupt signal during scripted replay outside interactive mode,
\* or during recording, is forwarded to the child and does not end the
\* driver: replay stays where it is in the script with the master open, and
\* the recorder stays in its loop.
C11_InterruptForwardedNotFatal ==
  [][/\ (~Interrupted /\ Interrupted' /\ pc # "interact") =>
          /\ pc' = pc
          /\ master' = "open"
     /\ sigints_forwarded' # sigints_forwarded =>
          /\ rec_pc' = "loop"
          /\ recording'
    ]_vars

\* this step read a key from stdin
KeyRead == keyboard' # keyboard
KeyJustRead == Head(keyboard)

\* the write of the key read in this step raised OSError because the child
\* closed the pty at that moment
WriteFailed == rec_child = "running" /\ rec_child' = "exited"

\* C12: while recording, every key read from the user other than Ctrl+T is
\* written to the child when it is read, so in the order typed (unless the
\* write itself fails because the child has just gone); Ctrl+T is never
\* written to the child and never added to the command typed so far or to
\* the transcript.
C12_KeysForwardedExceptStopKey ==
  /\ [](\A i \in 1..Len(to_child) : to_child[i] # "^T")
  /\ [](\A i \in 1..Len(command_so_far) : command_so_far[i] # "^T")
  /\ [](\A i \in 1..Len(recorded_commands) :
          \A j \in 1..Len(recorded_commands[i]) :
             recorded_commands[i][j] # "^T")
  /\ [][/\ (KeyRead /\ KeyJustRead \notin {"^T", "EOF"} \cup InvalidUtf8) =>
             \/ to_child' = Append(to_child, KeyJustRead)
             \/ WriteFailed /\ UNCHANGED to_child
        /\ (KeyRead /\ KeyJustRead = "^T") =>
             UNCHANGED <<to_child, command_so_far, recorded_commands>>
        /\ ~KeyRead => UNCHANGED to_child
       ]_vars

\* ls, Enter, pwd, Enter were written to the child, and Ctrl+T, read last,
\* ended the recording
C12_Witness ==
  /\ keyboard = <<>>
  /\ user_char_just_read = "^T"
  /\ to_child = <<"l", "s", "\r", "p", "w", "d", "\r">>
  /\ ~recording

\* the recording loop has been left
LoopLeft == rec_pc \in {"waitpid", "done"}

\* a step that leaves the recording loop
LoopEnds == recording /\ ~recording'

\* the except and finally clauses have run as far as they go
Finalized ==
  /\ LoopLeft
  /\ sigint = "default"
  /\ stdin_settings = "cooked"
  /\ \/ recorded_commands = <<>>
     \/ output_file.exists
     \/ rec_raised = "OSError"

\* a pass of the loop that finds the child gone
ChildGonePass ==
  rec_pc = "loop" /\ rec_child = "exited" /\ UNCHANGED sigints_forwarded

\* C13: the stop key, the end of the keyboard input, and the end of file or
\* a read error on the master each end the recording loop; from the moment
\* the trigger is observed no key is written to the child, no chunk is
\* read, nothing is added to the transcript, and finalization follows at
\* once.
C13_TriggerEndsRecording ==
  [][/\ (KeyRead /\ KeyJustRead \in StopKeys) =>
          /\ LoopEnds
          /\ UNCHANGED <<to_child, recorded_commands>>
     /\ ChildGonePass =>
          /\ LoopEnds
          /\ UNCHANGED <<to_child, rec_chunks, recorded_commands, keyboard>>
     /\ LoopEnds => Finalized'
     /\ LoopLeft =>
          UNCHANGED <<to_child, rec_chunks, recorded_commands, keyboard>>
    ]_vars

\* the child went away before the user had typed everything: the session
\* is over with keys left, after keys were forwarded and chunks read
C13_Witness ==
  /\ rec_pc = "done"
  /\ rec_child = "reaped"
  /\ keyboard # <<>>
  /\ to_child # <<>>
  /\ rec_chunks > 0
  /\ output_file.exists

\* C14: the transcript only grows at its end during the session; the output
\* file is written once, when the session is finalized, as the header
\* comments followed by the recorded entries, one per line, in recorded
\* order; when nothing was recorded the output file is not written.
C14_TranscriptWrittenOnceAtEnd ==
  /\ [](output_file.exists =>
          /\ LoopLeft
          /\ recorded_commands # <<>>
          /\ output_file.text = WriteLines(HeaderLines \o recorded_commands))
  /\ [][/\ IsPrefix(recorded_commands, recorded_commands')
        /\ output_file' # output_file => (LoopEnds /\ ~output_file.exists)
       ]_vars

\* the session ls, pwd has been written with a directive before a command
C14_Witness ==
  /\ rec_pc = "done"
  /\ output_file.exists
  /\ Len(recorded_commands) >= 3
  /\ \E i \in 1..Len(recorded_commands) : recorded_commands[i] = <<"l", "s">>
  /\ \E i \in 1..Len(recorded_commands) :
        recorded_commands[i] = <<"p", "w", "d">>

\* this step read a chunk in wait_for_prompt
ChunkReadInWait == InWait /\ chunks_read' = chunks_read + 1

\* C15: with a silence threshold of 0, the pass of wait_for_prompt that
\* reads the chunk with which the buffer matches the prompt spec confirms
\* the wait: there is no further wait for silence.
C15_ZeroThresholdConfirmsAtOnce ==
  [][(/\ silence_threshold = 0
      /\ ChunkReadInWait
      /\ CheckPrompt(current_prompt, text')) =>
        /\ pc' = "dispatch"
        /\ events' = Append(events, <<"wait", TRUE>>)
        /\ now' = last_output_time'
    ]_vars

\* a wait with threshold 0 that was confirmed by its second chunk, at the
\* time this chunk was read
C15_Witness ==
  /\ silence_threshold = 0
  /\ WaitJustConfirmed
  /\ chunks_read >= 2
  /\ data # <<>>
  /\ buffer # data
  /\ now = last_output_time
  /\ ~CheckPrompt(current_prompt,
                  Decode(SubSeq(buffer, 1, Len(buffer) - Len(data))))

\* a prompt spec with at least one pattern, none of which is empty
NonEmptySpec(prompts) ==
  /\ Len(prompts) > 0
  /\ \A k \in 1..Len(prompts) :
        prompts[k] # {} /\ (\A lit \in prompts[k] : lit # <<>>)

\* the prompt spec the directive line installs, if it installs one
Installs(line, prompts) ==
  LET name == MetaName(MetaText(line))
      arg == MetaArg(MetaText(line))
  IN  \/ name = CmdPrompt /\ arg # <<>> /\ prompts = << {arg} >>
      \/ name = CmdSh /\ prompts = PromptPatterns.sh
      \/ name = CmdMysql /\ prompts = PromptPatterns.mysql
      \/ name = CmdPython /\ prompts = PromptPatterns.python
      \/ name = CmdPsql /\ prompts = PromptPatterns.psql

\* C16: the prompt spec of the replay driver is never empty: it starts as
\* the default shell pattern, and it changes only when a named directive
\* installs its non-empty pattern set or a prompt directive with a
\* non-empty argument installs that argument.
C16_PromptSpecNeverEmpty ==
  /\ [](NonEmptySpec(current_prompt))
  /\ [](pc \in {"start", "initial_wait"} => current_prompt = DefaultPrompt)
  /\ [][current_prompt' # current_prompt =>
          /\ pc = "dispatch"
          /\ idx <= Len(commands)
          /\ IsMeta(commands[idx])
          /\ Installs(commands[idx], current_prompt')
       ]_vars

\* a prompt directive has installed its argument, a wait was confirmed
\* with it, and the python directive has replaced it
C16_Witness ==
  /\ Happened(<<"set_prompt", << {<<"%">>} >> >>)
  /\ current_prompt = PromptPatterns.python
  /\ pc = "done"

\* C17: teardown of replay always completes: once the driver has closed
\* the master it has the child terminated, so the child is reaped and the
\* driver is done, also with a child that would not exit on its own.
C17_TeardownAlwaysCompletes ==
  (pc = "waitpid") ~> (pc = "done" /\ master = "closed" /\ child = "reaped")

\* C18: the draining phase of replay always ends: after the script is
\* exhausted or aborted by a command timeout the driver goes on to teardown
\* whatever the child does, also when the child keeps writing output.
C18_DrainingAlwaysEnds ==
  (pc = "drain") ~> (pc \in {"waitpid", "done"})

\* C19: in record mode the silence test applied to a key takes in the
\* output read in the same pass: when a pass reads a chunk from the child
\* and a key, and the silence threshold is positive, the prompt line has
\* changed less than the threshold ago and the pass appends no prompt
\* directive.
ChunkReadInPass == rec_chunks' = rec_chunks + 1

C19_SilenceTestSeesSamePassOutput ==
  [][(KeyStep /\ ChunkReadInPass /\ rec_silence_threshold > 0)
        => DirectivesAppended = <<>>]_vars

\* C20: in record mode a prompt directive is appended only at a command
\* boundary: a pass that appends a directive finds command_so_far empty.
C20_DirectiveOnlyAtCommandBoundary ==
  [][DirectivesAppended # <<>> => command_so_far = <<>>]_vars

\* the text matches a pattern of the prompt spec at the end of its last
\* line: at the very end, or just before one final newline
EndOfLastLine(clean_text) ==
  IF clean_text # <<>> /\ clean_text[Len(clean_text)].c = "\n"
    THEN Len(clean_text) - 1
    ELSE Len(clean_text)

PromptEndsLastLine(prompts, clean_text) ==
  \E k \in 1..Len(prompts) : \E lit \in prompts[k] :
     TextBefore(clean_text, EndOfLastLine(clean_text), Len(lit)) = lit

\* C21: when a prompt wait of replay confirms, the prompt pattern matches
\* at the end of the last line of the output accumulated; a prompt-like
\* text at the end of an earlier line, followed by output on later lines,
\* does not confirm.
C21_ConfirmedPromptEndsLastLine ==
  WaitJustConfirmed => PromptEndsLastLine(current_prompt, StripAnsi(text))

\* a wait starts with this step
WaitStarts == ~InWait /\ InWait'

\* C22: the buffer of a prompt wait is bounded: at the start of every pass
\* it holds at most 1000 bytes, a wait starts with an empty buffer, a pass
\* that takes the buffer over 1000 bytes leaves its last 500 bytes, and the
\* prompt is looked for in the buffer with the whole chunk in it, before
\* anything is cut.
C22_BufferBounded ==
  /\ [](InWait => ByteLen(buffer) <= BufferLimit)
  /\ [][WaitStarts => buffer' = <<>>]_vars
  /\ [][ChunkReadInWait =>
          /\ text' = Decode(buffer \o data')
          /\ prompt_found' = CheckPrompt(current_prompt, text')
          /\ buffer' = IF ByteLen(buffer \o data') > BufferLimit
                         THEN LastBytes(buffer \o data', BufferKeep)
                         ELSE buffer \o data']_vars

\* a wait whose buffer has been cut to its last 500 bytes after the prompt
\* was looked for in the 1200 bytes read
C22_Witness ==
  /\ InWait
  /\ ByteLen(buffer) = BufferKeep
  /\ ByteLen(text) > BufferLimit

\* a step of interactive mode: the driver is in the mode and the operator
\* does not interrupt it with this step
InteractStep == pc = "interact" /\ ~(Interrupted' /\ ~Interrupted)

\* what this step appended to the events
NewEvents == SubSeq(events', Len(events) + 1, Len(events'))

\* C23: during the interact directive every chunk of the child is echoed
\* and every line typed other than exit is written to the child, in the
\* order of arrival (a chunk read in a pass before the line read in it);
\* the line exit is not written; and the mode ends, on exit or on the
\* child's end of file, only by replay going on with the script line after
\* interact.
C23_InteractRelaysUntilExit ==
  [][InteractStep =>
       /\ IsPrefix(events, events')
       /\ \A i \in 1..Len(NewEvents) :
            /\ NewEvents[i][1] \in {"echo", "typed"}
            /\ NewEvents[i][1] = "echo" =>
                 i = 1 /\ NewEvents[i][2] \in child_output
            /\ NewEvents[i][1] = "typed" =>
                 /\ NewEvents[i][2] \in UserLines
                 /\ Strip(NewEvents[i][2]) # ExitWord
       /\ chunks_read' = chunks_read + 1 =>
            NewEvents # <<>> /\ NewEvents[1][1] = "echo"
       /\ (lines_typed' = lines_typed + 1
             /\ \A i \in 1..Len(NewEvents) : NewEvents[i][1] # "typed") =>
            pc' = "dispatch"
       /\ pc' # "interact" =>
            /\ pc' = "dispatch" /\ idx' = idx + 1
            /\ master' = "open" /\ raised' = "none"]_vars

=============================================================================
